---- MODULE Spec2Model ----
(***************************************************************************)
(* The PspCoin ledger of src/lib.rs (an ink! PSP22/ERC20 contract) as a    *)
(* state machine.  The contract storage is the three fields total_supply,  *)
(* balances and allowances; every message is one atomic step.  Each        *)
(* message is first written as an operator from the storage before the     *)
(* call to the outcome of the call (result, storage after, events          *)
(* emitted), following the Rust statement by statement, and then           *)
(* dispatched by an action.                                                *)
(***************************************************************************)
EXTENDS Integers, Sequences, FiniteSets, TLC

\* The largest value of the amount type (u128::MAX in the source), scaled down.
MaxAmount == 2

\* The number of messages dispatched after construction.
MaxCalls == 3

\* The all-zero AccountId: an ordinary key for the code, never a caller.
ZeroAddress == "zero"

Accounts == {ZeroAddress, "alice", "bob"}

\* The accounts that sign calls.
Callers == Accounts \ {ZeroAddress}

\* The accounts named as spender: an allowance is spent only by a caller.
Spenders == Callers

\* The keys of the allowances mapping.
AllPairs == Accounts \X Accounts

\* The amounts passed as arguments: nothing, one unit, and the maximum.
Values == {0, 1, MaxAmount}

VARIABLES
    total_supply,   \* PspCoin.total_supply
    balances,       \* PspCoin.balances: a Mapping, here a function on its stored keys
    allowances,     \* PspCoin.allowances: a Mapping keyed by <<owner, spender>>
    emitted,        \* the events the last call handed to emit_event, in order
    last,           \* the last call: message, caller, arguments, result
    pre,            \* the storage the last call started from
    calls,          \* messages dispatched so far
    granted,        \* per <<owner, spender>>: the value approve last wrote for the pair
    spent           \* per <<owner, spender>>: what the spender has moved since that write

vars == <<total_supply, balances, allowances, emitted, last, pre, calls,
          granted, spent>>

---------------------------------------------------------------------------
\* Option<T>: None is the empty tuple, Some(x) the one-element tuple.
None == <<>>

Some(x) == <<x>>

unwrap_or_default(o) == IF o = None THEN 0 ELSE o[1]

\* u128 arithmetic of the source.
wrapping_add(a, b) == (a + b) % (MaxAmount + 1)

saturating_add(a, b) == IF a + b > MaxAmount THEN MaxAmount ELSE a + b

saturating_sub(a, b) == IF a < b THEN 0 ELSE a - b

\* ink::storage::Mapping: absent keys are not in the domain.
EmptyMapping == [k \in {} |-> 0]

\* A faulty variant: a zero value removes the entry instead of being stored.
insert_Sparse(m, k, v) ==
    IF v = 0
    THEN [x \in (DOMAIN m) \ {k} |-> m[x]]
    ELSE [x \in (DOMAIN m) \cup {k} |-> IF x = k THEN v ELSE m[x]]

insert(m, k, v) == [x \in (DOMAIN m) \cup {k} |-> IF x = k THEN v ELSE m[x]]

get(m, k) == IF k \in DOMAIN m THEN Some(m[k]) ELSE None

\* The events.
TransferEvent(from, to, value) ==
    [event |-> "Transfer", from |-> from, to |-> to, value |-> value]

ApprovalEvent(owner, spender, value) ==
    [event |-> "Approval", owner |-> owner, spender |-> spender, value |-> value]

\* The storage as one value, and the outcome of a message.
Self == [total_supply |-> total_supply, balances |-> balances,
         allowances |-> allowances]

Ok(self, events) == [result |-> "Ok", self |-> self, events |-> events]

Err(self, e) == [result |-> e, self |-> self, events |-> <<>>]

---------------------------------------------------------------------------
\* The queries.
balance_of(self, owner) == unwrap_or_default(get(self.balances, owner))

allowance(self, owner, spender) ==
    unwrap_or_default(get(self.allowances, <<owner, spender>>))

\* The constructor: the whole supply goes to the caller.
new(caller, supply) ==
    Ok([total_supply |-> supply,
        balances |-> insert(EmptyMapping, caller, supply),
        allowances |-> EmptyMapping],
       <<TransferEvent(None, Some(caller), supply)>>)

\* A faulty variant: the debit is written before the balance is checked.
_transfer_from_to_DebitFirst(self, from, to, value) ==
    LET from_balance == balance_of(self, from)
        s1 == [self EXCEPT !.balances =
                  insert(@, from, saturating_sub(from_balance, value))]
    IN  IF from_balance < value
        THEN Err(s1, "InsufficientBalance")
        ELSE LET to_balance == balance_of(s1, to)
                 s2 == [s1 EXCEPT !.balances =
                           insert(@, to, saturating_add(to_balance, value))]
             IN  Ok(s2, <<TransferEvent(Some(from), Some(to), value)>>)

\* A faulty variant: the recipient's balance is read before the debit is written.
_transfer_from_to_StaleCredit(self, from, to, value) ==
    LET from_balance == balance_of(self, from)
        to_balance == balance_of(self, to)
    IN  IF from_balance < value
        THEN Err(self, "InsufficientBalance")
        ELSE LET s1 == [self EXCEPT !.balances =
                           insert(@, from, saturating_sub(from_balance, value))]
                 s2 == [s1 EXCEPT !.balances =
                           insert(@, to, saturating_add(to_balance, value))]
             IN  Ok(s2, <<TransferEvent(Some(from), Some(to), value)>>)

\* A faulty variant: the all-zero recipient is rejected.
_transfer_from_to_ZeroCheck(self, from, to, value) ==
    LET from_balance == balance_of(self, from)
    IN  IF to = ZeroAddress
        THEN Err(self, "ZeroRecipientAddress")
        ELSE IF from_balance < value
        THEN Err(self, "InsufficientBalance")
        ELSE LET s1 == [self EXCEPT !.balances =
                           insert(@, from, saturating_sub(from_balance, value))]
                 to_balance == balance_of(s1, to)
                 s2 == [s1 EXCEPT !.balances =
                           insert(@, to, saturating_add(to_balance, value))]
             IN  Ok(s2, <<TransferEvent(Some(from), Some(to), value)>>)

\* A faulty variant: a balance equal to the value is refused.
_transfer_from_to_NonStrict(self, from, to, value) ==
    LET from_balance == balance_of(self, from)
    IN  IF from_balance <= value
        THEN Err(self, "InsufficientBalance")
        ELSE LET s1 == [self EXCEPT !.balances =
                           insert(@, from, saturating_sub(from_balance, value))]
                 to_balance == balance_of(s1, to)
                 s2 == [s1 EXCEPT !.balances =
                           insert(@, to, saturating_add(to_balance, value))]
             IN  Ok(s2, <<TransferEvent(Some(from), Some(to), value)>>)

\* fn _transfer_from_to
_transfer_from_to(self, from, to, value) ==
    LET from_balance == balance_of(self, from)
    IN  IF from_balance < value
        THEN Err(self, "InsufficientBalance")
        ELSE LET s1 == [self EXCEPT !.balances =
                           insert(@, from, saturating_sub(from_balance, value))]
                 to_balance == balance_of(s1, to)
                 s2 == [s1 EXCEPT !.balances =
                           insert(@, to, saturating_add(to_balance, value))]
             IN  Ok(s2, <<TransferEvent(Some(from), Some(to), value)>>)

transfer(self, caller, to, value) ==
    LET from == caller
    IN  _transfer_from_to(self, from, to, value)

\* A faulty variant: the allowance is left as it was after a delegated transfer.
transfer_from_NoDecrement(self, caller, from, to, value) ==
    LET allowance_ == allowance(self, from, caller)
    IN  IF allowance_ < value
        THEN Err(self, "InsufficientAllowance")
        ELSE _transfer_from_to(self, from, to, value)

\* A faulty variant: the balance is checked before the allowance.
transfer_from_BalanceFirst(self, caller, from, to, value) ==
    LET allowance_ == allowance(self, from, caller)
        r == _transfer_from_to(self, from, to, value)
    IN  IF r.result # "Ok"
        THEN r
        ELSE IF allowance_ < value
             THEN Err(self, "InsufficientAllowance")
             ELSE Ok([r.self EXCEPT !.allowances =
                         insert(@, <<from, caller>>,
                                saturating_sub(allowance_, value))],
                     r.events)

\* A faulty variant: the allowance decrement is announced by an Approval event.
transfer_from_EmitsApproval(self, caller, from, to, value) ==
    LET allowance_ == allowance(self, from, caller)
    IN  IF allowance_ < value
        THEN Err(self, "InsufficientAllowance")
        ELSE LET r == _transfer_from_to(self, from, to, value)
             IN  IF r.result # "Ok"
                 THEN r
                 ELSE Ok([r.self EXCEPT !.allowances =
                             insert(@, <<from, caller>>,
                                    saturating_sub(allowance_, value))],
                         r.events \o <<ApprovalEvent(from, caller,
                                          saturating_sub(allowance_, value))>>)

\* A faulty variant: the allowance is not checked.
transfer_from_NoAllowanceCheck(self, caller, from, to, value) ==
    LET allowance_ == allowance(self, from, caller)
        r == _transfer_from_to(self, from, to, value)
    IN  IF r.result # "Ok"
        THEN r
        ELSE Ok([r.self EXCEPT !.allowances =
                    insert(@, <<from, caller>>,
                           saturating_sub(allowance_, value))],
                r.events)

\* A faulty variant: the decrement is written under the key (caller, from).
transfer_from_WrongKey(self, caller, from, to, value) ==
    LET allowance_ == allowance(self, from, caller)
    IN  IF allowance_ < value
        THEN Err(self, "InsufficientAllowance")
        ELSE LET r == _transfer_from_to(self, from, to, value)
             IN  IF r.result # "Ok"
                 THEN r
                 ELSE Ok([r.self EXCEPT !.allowances =
                             insert(@, <<caller, from>>,
                                    saturating_sub(allowance_, value))],
                         r.events)

transfer_from(self, caller, from, to, value) ==
    LET allowance_ == allowance(self, from, caller)
    IN  IF allowance_ < value
        THEN Err(self, "InsufficientAllowance")
        ELSE LET r == _transfer_from_to(self, from, to, value)
             IN  IF r.result # "Ok"
                 THEN r
                 ELSE Ok([r.self EXCEPT !.allowances =
                             insert(@, <<from, caller>>,
                                    saturating_sub(allowance_, value))],
                         r.events)

\* A faulty variant: the new value is added to the allowance, not written over it.
approve_Additive(self, caller, spender, value) ==
    LET owner == caller
    IN  Ok([self EXCEPT !.allowances =
               insert(@, <<owner, spender>>,
                      saturating_add(allowance(self, owner, spender), value))],
           <<ApprovalEvent(owner, spender, value)>>)

approve(self, caller, spender, value) ==
    LET owner == caller
    IN  Ok([self EXCEPT !.allowances = insert(@, <<owner, spender>>, value)],
           <<ApprovalEvent(owner, spender, value)>>)

\* A faulty variant: the sum wraps around instead of saturating.
increase_allowance_Wrapping(self, caller, spender, delta_value) ==
    LET owner == caller
        allowance_ == allowance(self, owner, spender)
    IN  approve(self, caller, spender, wrapping_add(allowance_, delta_value))

increase_allowance(self, caller, spender, delta_value) ==
    LET owner == caller
        allowance_ == allowance(self, owner, spender)
    IN  approve(self, caller, spender, saturating_add(allowance_, delta_value))

\* A faulty variant: the decrease is clamped at zero instead of refused.
decrease_allowance_Unchecked(self, caller, spender, delta_value) ==
    LET owner == caller
        allowance_ == allowance(self, owner, spender)
    IN  approve(self, caller, spender, saturating_sub(allowance_, delta_value))

decrease_allowance(self, caller, spender, delta_value) ==
    LET owner == caller
        allowance_ == allowance(self, owner, spender)
    IN  IF allowance_ < delta_value
        THEN Err(self, "InsufficientAllowance")
        ELSE approve(self, caller, spender,
                     saturating_sub(allowance_, delta_value))

mint(self, caller, value) ==
    LET balance == balance_of(self, caller)
        s1 == [self EXCEPT !.balances =
                  insert(@, caller, saturating_add(balance, value))]
        s2 == [s1 EXCEPT !.total_supply = saturating_add(@, value)]
    IN  Ok(s2, <<TransferEvent(None, Some(caller), value)>>)

burn(self, caller, value) ==
    LET balance == balance_of(self, caller)
    IN  IF balance < value
        THEN Err(self, "InsufficientBalance")
        ELSE LET s1 == [self EXCEPT !.balances =
                           insert(@, caller, saturating_sub(balance, value))]
                 s2 == [s1 EXCEPT !.total_supply = saturating_sub(@, value)]
             IN  Ok(s2, <<TransferEvent(Some(caller), None, value)>>)

---------------------------------------------------------------------------
\* The state machine: construction, then one message per step.
Call(op, caller, args) == [op |-> op, caller |-> caller, args |-> args]

Init ==
    \E caller \in Callers, supply \in Values :
        LET r == new(caller, supply)
        IN  /\ total_supply = r.self.total_supply
            /\ balances = r.self.balances
            /\ allowances = r.self.allowances
            /\ emitted = r.events
            /\ last = [call |-> Call("new", caller, [total_supply |-> supply]),
                       result |-> r.result]
            /\ pre = r.self
            /\ calls = 0
            /\ granted = [k \in AllPairs |-> 0]
            /\ spent = [k \in AllPairs |-> 0]

\* The call reached approve, which wrote the pair's allowance: an approve, an
\* increase_allowance, or a decrease_allowance that passed its check.  A
\* refused decrease_allowance returns before approve and writes nothing.
SetsAllowance(call, r) ==
    /\ call.op \in {"approve", "increase_allowance", "decrease_allowance"}
    /\ r.result = "Ok"

GrantedAfter(call, r) ==
    IF SetsAllowance(call, r)
    THEN [granted EXCEPT ![<<call.caller, call.args.spender>>] =
             allowance(r.self, call.caller, call.args.spender)]
    ELSE granted

SpentAfter(call, r) ==
    IF SetsAllowance(call, r)
    THEN [spent EXCEPT ![<<call.caller, call.args.spender>>] = 0]
    ELSE IF call.op = "transfer_from" /\ r.result = "Ok"
         THEN [spent EXCEPT ![<<call.args.from, call.caller>>] = @ + call.args.value]
         ELSE spent

\* The environment dispatches one message and the storage is written back.
Dispatch(call, r) ==
    /\ calls < MaxCalls
    /\ calls' = calls + 1
    /\ pre' = Self
    /\ total_supply' = r.self.total_supply
    /\ balances' = r.self.balances
    /\ allowances' = r.self.allowances
    /\ emitted' = r.events
    /\ last' = [call |-> call, result |-> r.result]
    /\ granted' = GrantedAfter(call, r)
    /\ spent' = SpentAfter(call, r)

Msg_transfer ==
    \E caller \in Callers, to \in Accounts, value \in Values :
        Dispatch(Call("transfer", caller, [to |-> to, value |-> value]),
                 transfer(Self, caller, to, value))

Msg_transfer_from ==
    \E caller \in Callers, from \in Accounts, to \in Accounts, value \in Values :
        Dispatch(Call("transfer_from", caller,
                      [from |-> from, to |-> to, value |-> value]),
                 transfer_from(Self, caller, from, to, value))

Msg_approve ==
    \E caller \in Callers, spender \in Spenders, value \in Values :
        Dispatch(Call("approve", caller, [spender |-> spender, value |-> value]),
                 approve(Self, caller, spender, value))

Msg_increase_allowance ==
    \E caller \in Callers, spender \in Spenders, delta_value \in Values :
        Dispatch(Call("increase_allowance", caller,
                      [spender |-> spender, value |-> delta_value]),
                 increase_allowance(Self, caller, spender, delta_value))

Msg_decrease_allowance ==
    \E caller \in Callers, spender \in Spenders, delta_value \in Values :
        Dispatch(Call("decrease_allowance", caller,
                      [spender |-> spender, value |-> delta_value]),
                 decrease_allowance(Self, caller, spender, delta_value))

Msg_mint ==
    \E caller \in Callers, value \in Values :
        Dispatch(Call("mint", caller, [value |-> value]),
                 mint(Self, caller, value))

Msg_burn ==
    \E caller \in Callers, value \in Values :
        Dispatch(Call("burn", caller, [value |-> value]),
                 burn(Self, caller, value))

Next ==
    \/ Msg_transfer
    \/ Msg_transfer_from
    \/ Msg_approve
    \/ Msg_increase_allowance
    \/ Msg_decrease_allowance
    \/ Msg_mint
    \/ Msg_burn

Spec == Init /\ [][Next]_vars

---------------------------------------------------------------------------
\* What the properties below read: the last call and the storage around it.
Op == last.call.op

Caller == last.call.caller

Args == last.call.args

Min(a, b) == IF a < b THEN a ELSE b

RECURSIVE SumBalances(_, _)
SumBalances(self, S) ==
    IF S = {} THEN 0
    ELSE LET a == CHOOSE x \in S : TRUE
         IN  balance_of(self, a) + SumBalances(self, S \ {a})

\* No balance other than those of the accounts in S differs from before the call.
OtherBalancesUnchanged(S) ==
    \A a \in Accounts \ S : get(balances, a) = get(pre.balances, a)

\* No allowance entry other than those of the pairs in P differs from before the call.
OtherAllowancesUnchanged(P) ==
    \A k \in AllPairs \ P : get(allowances, k) = get(pre.allowances, k)

---------------------------------------------------------------------------
\* C1: conservation -- in every reachable state total_supply equals the sum
\* of all account balances.
C1_Conservation == total_supply = SumBalances(Self, Accounts)

\* C2: all-or-nothing failure -- when transfer, transfer_from,
\* decrease_allowance or burn returns an error, total_supply, every balance
\* entry and every allowance entry are as before the call and the call
\* emitted no event.
C2_AllOrNothing ==
    (/\ Op \in {"transfer", "transfer_from", "decrease_allowance", "burn"}
     /\ last.result # "Ok")
    => (Self = pre /\ emitted = <<>>)

\* A delegated transfer passed the allowance check and failed on a balance
\* that was not zero, so a debit written too early would show.
C2_Witness ==
    /\ Op = "transfer_from"
    /\ last.result = "InsufficientBalance"
    /\ balance_of(pre, Args.from) > 0
    /\ allowance(pre, Args.from, Caller) > 0

\* C3: for caller # to, transfer fails with InsufficientBalance exactly when
\* the caller's balance is less than value; otherwise the caller's balance
\* goes down by exactly value, to's balance goes up by exactly value, and
\* every other balance, total_supply and every allowance stay as they were.
C3_TransferExact ==
    (Op = "transfer" /\ Caller # Args.to)
    => /\ last.result \in {"Ok", "InsufficientBalance"}
       /\ (last.result = "InsufficientBalance")
              <=> (balance_of(pre, Caller) < Args.value)
       /\ (last.result = "Ok")
              => /\ balance_of(Self, Caller) = balance_of(pre, Caller) - Args.value
                 /\ balance_of(Self, Args.to) = balance_of(pre, Args.to) + Args.value
                 /\ OtherBalancesUnchanged({Caller, Args.to})
                 /\ total_supply = pre.total_supply
                 /\ allowances = pre.allowances

\* C4: allowance decrement coupling -- a successful transfer_from(from, to, v)
\* by caller against allowance a leaves allowance(from, caller) = a - v and
\* changes no other allowance entry; one that passes the allowance check and
\* fails on from's balance leaves allowance(from, caller) = a.
C4_AllowanceCoupling ==
    (Op = "transfer_from")
    => LET a == allowance(pre, Args.from, Caller)
       IN  /\ (last.result = "Ok")
                  => /\ allowance(Self, Args.from, Caller) = a - Args.value
                     /\ OtherAllowancesUnchanged({<<Args.from, Caller>>})
           /\ (last.result = "InsufficientBalance")
                  => /\ a >= Args.value
                     /\ allowance(Self, Args.from, Caller) = a

\* A delegated transfer of part of an allowance by a third party succeeded.
C4_Witness ==
    /\ Op = "transfer_from"
    /\ last.result = "Ok"
    /\ Caller # Args.from
    /\ Args.value > 0
    /\ allowance(pre, Args.from, Caller) > Args.value
    /\ allowance(Self, Args.from, Caller) > 0

\* C5: transfer_from check order -- InsufficientAllowance whenever
\* allowance(from, caller) < value, whatever from's balance and also when
\* caller = from; InsufficientBalance exactly when the allowance suffices
\* and from's balance is less than value; success exactly when both suffice.
C5_CheckOrder ==
    (Op = "transfer_from")
    => LET a == allowance(pre, Args.from, Caller)
           b == balance_of(pre, Args.from)
       IN  /\ (last.result = "InsufficientAllowance") <=> (a < Args.value)
           /\ (last.result = "InsufficientBalance")
                  <=> (a >= Args.value /\ b < Args.value)
           /\ (last.result = "Ok") <=> (a >= Args.value /\ b >= Args.value)

\* An owner moving its own funds through transfer_from without an allowance
\* to itself is refused, although its balance suffices.
C5_Witness ==
    /\ Op = "transfer_from"
    /\ Caller = Args.from
    /\ balance_of(pre, Args.from) >= Args.value
    /\ allowance(pre, Args.from, Caller) < Args.value
    /\ last.result = "InsufficientAllowance"

\* C6: mint always succeeds, the caller's balance and total_supply increase
\* by the same amount, and no other balance and no allowance changes.
C6_MintEqualIncrease ==
    (Op = "mint")
    => /\ last.result = "Ok"
       /\ balance_of(Self, Caller) - balance_of(pre, Caller)
              = total_supply - pre.total_supply
       /\ OtherBalancesUnchanged({Caller})
       /\ allowances = pre.allowances

\* C7: burn fails with InsufficientBalance exactly when the caller's balance
\* is less than value; otherwise the caller's balance and total_supply both
\* go down by exactly value, every other balance and every allowance
\* staying as they were.
C7_BurnExact ==
    (Op = "burn")
    => /\ last.result \in {"Ok", "InsufficientBalance"}
       /\ (last.result = "InsufficientBalance")
              <=> (balance_of(pre, Caller) < Args.value)
       /\ (last.result = "Ok")
              => /\ balance_of(Self, Caller) = balance_of(pre, Caller) - Args.value
                 /\ total_supply = pre.total_supply - Args.value
                 /\ OtherBalancesUnchanged({Caller})
                 /\ allowances = pre.allowances

\* C8: mint/burn round trip -- mint(v) by X immediately followed by burn(v)
\* by X succeeds and returns balance_of(X) and total_supply to the values
\* they had before the mint.
C8_MintBurnRoundTrip ==
    [][(/\ Op = "mint"
        /\ last'.call.op = "burn"
        /\ last'.call.caller = Caller
        /\ last'.call.args.value = Args.value)
       => (/\ last'.result = "Ok"
           /\ unwrap_or_default(get(balances', Caller)) = balance_of(pre, Caller)
           /\ total_supply' = pre.total_supply)]_vars

\* C9: approve overwrite law -- approve(spender, value) always succeeds and
\* sets allowance(caller, spender) to exactly value whatever it was before;
\* no balance, total_supply or other allowance entry changes.
C9_ApproveOverwrite ==
    (Op = "approve")
    => /\ last.result = "Ok"
       /\ allowance(Self, Caller, Args.spender) = Args.value
       /\ balances = pre.balances
       /\ total_supply = pre.total_supply
       /\ OtherAllowancesUnchanged({<<Caller, Args.spender>>})

\* An approve wrote a value over an earlier, different, non-zero allowance.
C9_Witness ==
    /\ Op = "approve"
    /\ last.result = "Ok"
    /\ allowance(pre, Caller, Args.spender) > 0
    /\ Args.value > 0
    /\ Args.value # allowance(pre, Caller, Args.spender)
    /\ allowance(Self, Caller, Args.spender) = Args.value

\* C10: increase_allowance always succeeds, sets allowance(caller, spender)
\* to min(old allowance + delta, maximum amount), and emits an Approval
\* event carrying that new allowance.
C10_IncreaseSaturates ==
    (Op = "increase_allowance")
    => LET new_allowance ==
               Min(allowance(pre, Caller, Args.spender) + Args.value, MaxAmount)
       IN  /\ last.result = "Ok"
           /\ allowance(Self, Caller, Args.spender) = new_allowance
           /\ emitted = <<ApprovalEvent(Caller, Args.spender, new_allowance)>>

\* An increase whose exact sum is above the maximum amount was capped.
C10_Witness ==
    /\ Op = "increase_allowance"
    /\ last.result = "Ok"
    /\ allowance(pre, Caller, Args.spender) + Args.value > MaxAmount
    /\ allowance(Self, Caller, Args.spender) = MaxAmount

\* C11: decrease_allowance fails with InsufficientAllowance and changes
\* nothing exactly when allowance(caller, spender) < delta; otherwise it sets
\* allowance(caller, spender) to old allowance - delta and emits an Approval
\* event carrying the new value.
C11_DecreaseExact ==
    (Op = "decrease_allowance")
    => LET a == allowance(pre, Caller, Args.spender)
       IN  /\ last.result \in {"Ok", "InsufficientAllowance"}
           /\ (last.result = "InsufficientAllowance") <=> (a < Args.value)
           /\ (last.result = "InsufficientAllowance")
                  => (Self = pre /\ emitted = <<>>)
           /\ (last.result = "Ok")
                  => /\ allowance(Self, Caller, Args.spender) = a - Args.value
                     /\ emitted = <<ApprovalEvent(Caller, Args.spender,
                                                  a - Args.value)>>

\* Part of an allowance was taken back.
C11_Witness ==
    /\ Op = "decrease_allowance"
    /\ last.result = "Ok"
    /\ Args.value > 0
    /\ allowance(pre, Caller, Args.spender) > Args.value
    /\ allowance(Self, Caller, Args.spender) > 0

\* C12: self-transfer -- transfer(to = caller, value), and transfer_from with
\* from = to, succeeds whenever the source balance is at least value (and the
\* allowance suffices for transfer_from), leaves that account's balance and
\* every other balance unchanged, and emits one Transfer event with from = to.
C12_SelfTransfer ==
    /\ (Op = "transfer" /\ Args.to = Caller)
       => /\ (balance_of(pre, Caller) >= Args.value) => (last.result = "Ok")
          /\ (last.result = "Ok")
                 => /\ \A a \in Accounts :
                           balance_of(Self, a) = balance_of(pre, a)
                    /\ emitted = <<TransferEvent(Some(Caller), Some(Caller),
                                                 Args.value)>>
    /\ (Op = "transfer_from" /\ Args.from = Args.to)
       => /\ (/\ balance_of(pre, Args.from) >= Args.value
              /\ allowance(pre, Args.from, Caller) >= Args.value)
                 => (last.result = "Ok")
          /\ (last.result = "Ok")
                 => /\ \A a \in Accounts :
                           balance_of(Self, a) = balance_of(pre, a)
                    /\ emitted = <<TransferEvent(Some(Args.from), Some(Args.from),
                                                 Args.value)>>

\* An account sent itself a positive amount that another credit would have
\* shown: its balance was below the maximum.
C12_Witness ==
    /\ Op = "transfer"
    /\ Args.to = Caller
    /\ Args.value > 0
    /\ last.result = "Ok"
    /\ balance_of(pre, Caller) < MaxAmount

\* C13: sparse balances -- in every reachable state the balances mapping
\* holds no stored entry whose value is zero.
C13_Sparse == \A a \in DOMAIN balances : balances[a] # 0

\* C13, amended: the balances mapping is not sparse.  No call removes an
\* entry, and construction and every successful transfer, transfer_from,
\* mint and burn leave a stored entry for each account they credit or debit,
\* also when the value written is zero; every stored value is an amount
\* between zero and the maximum.
C13_EntriesKept ==
    /\ DOMAIN pre.balances \subseteq DOMAIN balances
    /\ \A a \in DOMAIN balances : balances[a] \in 0..MaxAmount
    /\ (Op = "new") => (Caller \in DOMAIN balances)
    /\ (Op = "transfer" /\ last.result = "Ok")
           => ({Caller, Args.to} \subseteq DOMAIN balances)
    /\ (Op = "transfer_from" /\ last.result = "Ok")
           => ({Args.from, Args.to} \subseteq DOMAIN balances)
    /\ (Op \in {"mint", "burn"} /\ last.result = "Ok")
           => (Caller \in DOMAIN balances)

\* An account transferred its whole balance away and keeps a stored zero.
C13_Witness ==
    /\ Op = "transfer"
    /\ last.result = "Ok"
    /\ Args.value > 0
    /\ Args.to # Caller
    /\ Caller \in DOMAIN balances
    /\ balances[Caller] = 0

\* C14: closed error behaviour -- the only errors returned are
\* InsufficientBalance and InsufficientAllowance, and a transfer or
\* transfer_from whose to (or from) is the all-zero account succeeds when
\* balance and allowance suffice.
C14_ClosedErrors ==
    /\ last.result \in {"Ok", "InsufficientBalance", "InsufficientAllowance"}
    /\ (/\ Op = "transfer"
        /\ Args.to = ZeroAddress
        /\ balance_of(pre, Caller) >= Args.value)
           => (last.result = "Ok")
    /\ (/\ Op = "transfer_from"
        /\ (Args.to = ZeroAddress \/ Args.from = ZeroAddress)
        /\ allowance(pre, Args.from, Caller) >= Args.value
        /\ balance_of(pre, Args.from) >= Args.value)
           => (last.result = "Ok")

\* A positive amount was transferred to the all-zero account.
C14_Witness ==
    /\ Op = "transfer"
    /\ Args.to = ZeroAddress
    /\ Args.value > 0
    /\ last.result = "Ok"
    /\ balance_of(Self, ZeroAddress) > 0

\* C15: notification log -- every successful message emits exactly one event:
\* transfer and transfer_from Transfer(source, destination, value), mint
\* Transfer(none, caller, value), burn Transfer(caller, none, value), and
\* approve, increase_allowance and decrease_allowance
\* Approval(caller, spender, new allowance); transfer_from emits no Approval.
C15_Notifications ==
    (last.result = "Ok" /\ Op # "new")
    => emitted =
         << CASE Op = "transfer" ->
                   TransferEvent(Some(Caller), Some(Args.to), Args.value)
              [] Op = "transfer_from" ->
                   TransferEvent(Some(Args.from), Some(Args.to), Args.value)
              [] Op = "mint" -> TransferEvent(None, Some(Caller), Args.value)
              [] Op = "burn" -> TransferEvent(Some(Caller), None, Args.value)
              [] Op \in {"approve", "increase_allowance", "decrease_allowance"} ->
                   ApprovalEvent(Caller, Args.spender,
                                 allowance(Self, Caller, Args.spender)) >>

\* A delegated transfer lowered an allowance and emitted its Transfer event.
C15_Witness ==
    /\ Op = "transfer_from"
    /\ last.result = "Ok"
    /\ Args.value > 0
    /\ allowance(Self, Args.from, Caller) < allowance(pre, Args.from, Caller)
    /\ Len(emitted) = 1

\* C16: underflow exclusion for burn -- no account's balance exceeds
\* total_supply, so a burn whose balance check passes finds
\* total_supply >= value and its subtraction never clamps at zero.
C16_BalanceWithinSupply ==
    /\ \A a \in Accounts : balance_of(Self, a) <= total_supply
    /\ (Op = "burn" /\ last.result = "Ok") => (pre.total_supply >= Args.value)

\* C17: debit authorization -- the balance of account A decreases in a step
\* only if the step is a successful transfer or burn called by A, or a
\* successful transfer_from(from = A) called by an account whose allowance
\* from A was at least value before the call.
C17_DebitAuthorized ==
    \A A \in Accounts :
        (balance_of(Self, A) < balance_of(pre, A))
        => /\ last.result = "Ok"
           /\ \/ (Op \in {"transfer", "burn"} /\ Caller = A)
              \/ /\ Op = "transfer_from"
                 /\ Args.from = A
                 /\ allowance(pre, A, Caller) >= Args.value

\* A spender other than the owner debited the owner's balance.
C17_Witness ==
    /\ Op = "transfer_from"
    /\ last.result = "Ok"
    /\ Caller # Args.from
    /\ balance_of(Self, Args.from) < balance_of(pre, Args.from)

\* C18: bounded delegated spending -- over any sequence of calls in which
\* owner O makes no approve, increase_allowance or decrease_allowance call
\* for spender S, the values of S's successful transfer_from(from = O) calls
\* sum to at most allowance(O, S) at the start of the sequence.  Stated for
\* the longest such sequence, the one since approve last wrote the pair's
\* allowance (a refused decrease_allowance writes nothing and does not end
\* it), together with what is left of the allowance, which gives the bound
\* for every later start as well.
C18_BoundedSpending ==
    \A k \in AllPairs :
        /\ spent[k] <= granted[k]
        /\ allowance(Self, k[1], k[2]) = granted[k] - spent[k]

\* A spender other than the owner used up an allowance in two delegated
\* transfers.
C18_Witness ==
    /\ Op = "transfer_from"
    /\ last.result = "Ok"
    /\ Caller # Args.from
    /\ Args.value > 0
    /\ spent[<<Args.from, Caller>>] > Args.value
    /\ spent[<<Args.from, Caller>>] = granted[<<Args.from, Caller>>]

\* C19: allowance write authority -- the entry allowance(O, S) changes in a
\* step only if the step is an approve, increase_allowance or
\* decrease_allowance called by O with spender S, or a successful
\* transfer_from(from = O) called by S; it increases only in steps called
\* by O; transfer, mint and burn leave every allowance entry unchanged.
C19_AllowanceAuthority ==
    /\ \A k \in AllPairs :
           (get(allowances, k) # get(pre.allowances, k))
           => \/ /\ Op \in {"approve", "increase_allowance", "decrease_allowance"}
                 /\ Caller = k[1]
                 /\ Args.spender = k[2]
              \/ /\ Op = "transfer_from"
                 /\ last.result = "Ok"
                 /\ Args.from = k[1]
                 /\ Caller = k[2]
    /\ \A k \in AllPairs :
           (allowance(Self, k[1], k[2]) > allowance(pre, k[1], k[2]))
           => (Caller = k[1])
    /\ (Op \in {"transfer", "mint", "burn"}) => (allowances = pre.allowances)

\* A spender other than the owner lowered its allowance by spending it.
C19_Witness ==
    /\ Op = "transfer_from"
    /\ last.result = "Ok"
    /\ Caller # Args.from
    /\ allowance(Self, Args.from, Caller) < allowance(pre, Args.from, Caller)

\* C20: zero-value operations -- transfer(to, 0), burn(0) and
\* transfer_from(from, to, 0) succeed for any caller and accounts, whatever
\* the balances and without any allowance; they leave every balance_of,
\* every allowance and total_supply unchanged and emit one Transfer event
\* with value 0.
C20_ZeroValue ==
    (Op \in {"transfer", "burn", "transfer_from"} /\ Args.value = 0)
    => /\ last.result = "Ok"
       /\ \A a \in Accounts : balance_of(Self, a) = balance_of(pre, a)
       /\ \A k \in AllPairs :
              allowance(Self, k[1], k[2]) = allowance(pre, k[1], k[2])
       /\ total_supply = pre.total_supply
       /\ Len(emitted) = 1
       /\ emitted[1].event = "Transfer"
       /\ emitted[1].value = 0

\* A zero-value delegated transfer from an account without balance, by a
\* caller that was never granted an allowance, succeeded.
C20_Witness ==
    /\ Op = "transfer_from"
    /\ Args.value = 0
    /\ last.result = "Ok"
    /\ balance_of(pre, Args.from) = 0
    /\ <<Args.from, Caller>> \notin DOMAIN pre.allowances

====
